---- MODULE Spec2Model ----
(***************************************************************************)
(* Model of the tgcheck crawl engine (src/src/main.rs): the main task      *)
(* (frontier / dispatcher loop), the reporter task and the spawned fetch   *)
(* tasks, communicating over the edge channel (tx/rx), the result channel  *)
(* (result_tx/result_rx), the atomic counter `todo`, the semaphore `sem`   *)
(* and the mutex-protected running average.                                *)
(*                                                                         *)
(* Every await point of the source is a separate step.  Values of type     *)
(* Option<T> are sequences: <<>> is None and <<v>> is Some(v).             *)
(* Durations and the running average are in tenths of a second; the        *)
(* running average is an exact fraction <<numerator, denominator>>.        *)
(***************************************************************************)
EXTENDS Integers, Sequences, FiniteSets, TLC

(***************************************************************************)
(* Bounds of the model.                                                    *)
(***************************************************************************)
\* capacity of the edge channel in the model (mpsc::channel(512) in the source)
EdgeCap == 2
\* capacity of the result channel in the model (mpsc::channel(512) in the source)
ResultCap == 2
\* largest --max-concurrent value tried
MaxConcurrent == 2

(***************************************************************************)
(* Program constants.                                                      *)
(***************************************************************************)
MIN_SIZE == 200
\* width of the model's usize (AtomicUsize wraps modulo 2^UsizeBits)
UsizeBits == 16
UsizeMod == 2 ^ UsizeBits

None == <<>>
Some(v) == <<v>>
IsSome(o) == Len(o) = 1
Unwrap(o) == o[1]

(***************************************************************************)
(* URLs, hrefs and pages.                                                  *)
(***************************************************************************)
Url(h, p) == [host |-> h, path |-> p]
SeedHost == "a"
OtherHost == "x"
Paths == 0 .. 3
SeedUrl == Url(SeedHost, 0)
SiteUrls == {Url(SeedHost, p) : p \in Paths}
AllUrls == {Url(h, p) : h \in {SeedHost, OtherHost}, p \in Paths}

\* the ways an href attribute can look to extract_urls
Rel(p) == [kind |-> "rel", host |-> "", path |-> p]
Abs(h, p) == [kind |-> "abs", host |-> h, path |-> p]
\* an href such as //host/path, which base.join resolves to that host
NetPath(h, p) == [kind |-> "net", host |-> h, path |-> p]
Frag == [kind |-> "frag", host |-> "", path |-> 0]
Bad == [kind |-> "bad", host |-> "", path |-> 0]

\* what the server answers for a URL
OkPage(status, size, hrefs, dur) ==
    [resp |-> "ok", status |-> Some(status), body |-> "ok", err_status |-> None,
     size |-> size, hrefs |-> hrefs, dur |-> dur]
FailPage(err_status, dur) ==
    [resp |-> "err", status |-> None, body |-> "err", err_status |-> err_status,
     size |-> 0, hrefs |-> <<>>, dur |-> dur]
BodyFailPage(status, dur) ==
    [resp |-> "ok", status |-> Some(status), body |-> "err", err_status |-> None,
     size |-> 0, hrefs |-> <<>>, dur |-> dur]

Leaf == OkPage(200, 5000, <<>>, 2)

\* the sites crawled: a function from the path on the seed's host to the page
Sites ==
    { \* a seed page without links
      [p \in Paths |-> Leaf],
      \* the seed links to B twice and to C once
      [p \in Paths |-> IF p = 0 THEN OkPage(200, 5000, <<Rel(1), Rel(1), Rel(2)>>, 2)
                       ELSE Leaf],
      \* a cross-host link, a fragment and a malformed href beside a link to B;
      \* B links to another host twice and, by an absolute href, to C
      [p \in Paths |-> IF p = 0
                         THEN OkPage(200, 5000, <<Abs(OtherHost, 1), Frag, Bad, Rel(1)>>, 2)
                       ELSE IF p = 1
                         THEN OkPage(200, 300, <<NetPath(OtherHost, 3), Abs(OtherHost, 2),
                                               Abs(SeedHost, 2)>>, 30)
                       ELSE Leaf],
      \* fetching C fails in transport; B is a 404 with a body
      [p \in Paths |-> IF p = 0 THEN OkPage(200, 5000, <<Rel(1), Rel(2)>>, 2)
                       ELSE IF p = 1 THEN OkPage(404, 5000, <<>>, 2)
                       ELSE FailPage(None, 30)],
      \* a seed page of 199 bytes; B's body cannot be read; C is exactly 200 bytes
      [p \in Paths |-> IF p = 0 THEN OkPage(200, MIN_SIZE - 1, <<Rel(1), Rel(2)>>, 2)
                       ELSE IF p = 1 THEN BodyFailPage(200, 2)
                       ELSE OkPage(200, MIN_SIZE, <<>>, 30)],
      \* a cycle: seed -> B -> seed, C -> B, and C answers an error with a status
      [p \in Paths |-> IF p = 0 THEN OkPage(200, 5000, <<Rel(1)>>, 70)
                       ELSE IF p = 1 THEN OkPage(200, 5000, <<Rel(0), Rel(2), Rel(2)>>, 2)
                       ELSE IF p = 2 THEN FailPage(Some(500), 2)
                       ELSE Leaf],
      \* B and C, fetched concurrently, both link to D and to each other
      [p \in Paths |-> IF p = 0 THEN OkPage(200, 5000, <<Rel(1), Rel(2)>>, 60)
                       ELSE IF p = 1 THEN OkPage(200, 5000, <<Rel(3), Rel(2)>>, 30)
                       ELSE IF p = 2 THEN OkPage(200, 5000, <<Rel(1), Rel(3)>>, 2)
                       ELSE OkPage(200, 5000, <<Rel(0)>>, 2)] }

\* the exclusion patterns: no pattern, or a regex matching exactly these URLs
ExcludePatterns ==
    {None} \cup {Some({u}) : u \in SiteUrls}

(***************************************************************************)
(* Pure functions of the source.                                           *)
(***************************************************************************)
\* base_url: the URL with its path segments cleared and its query removed
base_url(url) == Url(url.host, 0)

\* the closure of extract_urls' first filter_map: None for a fragment-only
\* href and for an href that does not parse or join, Some(url) otherwise
ParseHref(href, base) ==
    CASE href.kind = "frag" -> None
      [] href.kind = "abs" -> Some(Url(href.host, href.path))
      [] href.kind = "rel" -> Some(Url(base.host, href.path))
      [] href.kind = "net" -> Some(Url(href.host, href.path))
      [] OTHER -> None

\* a variant of HostFilter: the host comparison is missing
HostFilterNone(url, base) == TRUE

\* extract_urls' .filter(|url| url.host() == base.host())
HostFilter(url, base) == url.host = base.host

RECURSIVE CapturesFrom(_, _, _)
CapturesFrom(hrefs, base, i) ==
    IF i > Len(hrefs) THEN <<>>
    ELSE LET parsed == ParseHref(hrefs[i], base)
             rest == CapturesFrom(hrefs, base, i + 1)
         IN  IF IsSome(parsed) /\ HostFilter(Unwrap(parsed), base)
               THEN <<Unwrap(parsed)>> \o rest
               ELSE rest

\* the `captures` vector of extract_urls, in the order of the body
Captures(hrefs, base) == CapturesFrom(hrefs, base, 1)

\* StatusCode::is_success
is_success(status) == 200 <= status /\ status <= 299

\* a variant of SizeError: the comparison is <= instead of <
SizeErrorInclusive(size) ==
    IF IsSome(size) THEN Unwrap(size) <= MIN_SIZE ELSE TRUE

\* log_result's first match: the size is an error
SizeError(size) ==
    IF IsSome(size) THEN Unwrap(size) < MIN_SIZE ELSE TRUE

\* log_result's second match: the status is an error
StatusError(status) ==
    IF IsSome(status) THEN ~is_success(Unwrap(status)) ELSE TRUE

\* log_result's effect on the ResultState (last_len only pads the output)
log_result(result, st) ==
    [count |-> st.count + 1,
     error_count |-> IF ~StatusError(result.status) /\ ~SizeError(result.size)
                       THEN st.error_count
                       ELSE st.error_count + 1]

\* a variant of FetchAdd: the increment is missing
FetchAddNone(n) == n

\* todo.fetch_add(1) and output_todo.fetch_sub(1) on the AtomicUsize
FetchAdd(n) == (n + 1) % UsizeMod
FetchSub(n) == (n - 1) % UsizeMod

\* the exclusion pattern matches the URL
IsExcluded(pattern, url) == IsSome(pattern) /\ url \in Unwrap(pattern)

\* a variant of Decide: the seen test is missing
DecideNoSeen(pattern, seenset, url) ==
    IF IsExcluded(pattern, url) THEN "exclude" ELSE "admit"

\* a variant of Decide: the exclusion test is missing
DecideNoExclude(pattern, seenset, url) ==
    IF url \in seenset THEN "seen" ELSE "admit"

\* the frontier's decision for one edge: the exclusion test, then the seen test
Decide(pattern, seenset, url) ==
    IF IsExcluded(pattern, url) THEN "exclude"
    ELSE IF url \in seenset THEN "seen"
    ELSE "admit"

\* fractions <<n, d>> with d > 0, for the f64 running average
FracLess(a, b) == a[1] * b[2] < b[1] * a[2]
FracMax(a, b) == IF FracLess(a, b) THEN b ELSE a
\* a variant of Observe: the update is lost
ObserveLost(avg, duration) == avg

\* *running_average * (9. / 10.) + duration * (1. / 10.)
Observe(avg, duration) == <<9 * avg[1] + duration * avg[2], 10 * avg[2]>>
\* a variant of SleepTime: the final max(1.0) is missing
SleepTimeNoFloor(avg) == FracMax(<<0, 1>>, <<avg[1] - 5 * avg[2], avg[2]>>)

\* 0_f64.max(avg - 0.5).max(1.0)
SleepTime(avg) == FracMax(FracMax(<<0, 1>>, <<avg[1] - 5 * avg[2], avg[2]>>), <<10, 1>>)

\* a variant of ReleasePermit: the permit is released twice
ReleasePermitTwice(free) == free + 2

\* drop(fetch_permit) and acquire_owned on the semaphore's free permits
ReleasePermit(free) == free + 1
AcquirePermit(free) == free - 1

(***************************************************************************)
(* State.                                                                  *)
(***************************************************************************)
VARIABLES
    site,             \* the pages the server answers with (fixed during a run)
    exclude_pattern,  \* args.exclude_pattern
    max_concurrent,   \* args.max_concurrent
    rx,               \* the edge channel: Option<(Url, Url)> values in flight
    result_q,         \* the result channel: ResponseResults in flight
    result_closed,    \* result_rx.close() has been called
    todo,             \* the AtomicUsize
    seen,             \* the HashSet of the main loop
    sem,              \* free permits of the Semaphore
    running_average,  \* the f64 behind the Mutex
    main_pc,          \* where the main task is
    cur,              \* the edge the main loop holds, an Option
    sleep_time,       \* the sleep_time the main loop computed, an Option
    rep_pc,           \* where the reporter task is
    rep_result,       \* the result the reporter holds, an Option
    state,            \* the reporter's ResultState
    tasks,            \* the spawned fetch tasks, in spawn order
    excluded_log,     \* the URLs printed as "> exclude: {url}"
    consumed,         \* the results passed to log_result: result -> how often
    exit_code         \* the process's exit code, an Option

inputs == <<site, exclude_pattern, max_concurrent>>
chans == <<rx, result_q, result_closed>>
shared == <<todo, sem, running_average>>
mainv == <<seen, main_pc, cur, sleep_time, excluded_log, exit_code>>
repv == <<rep_pc, rep_result, state, consumed>>
vars == <<inputs, chans, shared, mainv, repv, tasks>>

\* ResponseResult { from, url, ..Default::default() }
NewResult(url, from) ==
    [from |-> from.path, url |-> url, status |-> None, size |-> None,
     error |-> None, message |-> None]

\* a fetch task as spawned: inside client.get(url).send(), holding its permit
NewTask(url, from) ==
    [url |-> url, from |-> from, pc |-> "get", fetch_permit |-> TRUE,
     result |-> NewResult(url, from), captures |-> <<>>, sent |-> 0]

\* the page the server answers with for a URL
PageOf(url) == IF url.host = SeedHost THEN site[url.path] ELSE Leaf

Init ==
    /\ site \in Sites
    /\ exclude_pattern \in ExcludePatterns
    /\ max_concurrent \in 1 .. MaxConcurrent
    /\ rx = <<Some([url |-> SeedUrl, from |-> SeedUrl])>>
    /\ result_q = <<>>
    /\ result_closed = FALSE
    /\ todo = 0
    /\ seen = {}
    /\ sem = max_concurrent
    /\ running_average = <<10, 1>>
    /\ main_pc = "recv"
    /\ cur = None
    /\ sleep_time = None
    /\ rep_pc = "start"
    /\ rep_result = None
    /\ state = [count |-> 0, error_count |-> 0]
    /\ tasks = <<>>
    /\ excluded_log = {}
    /\ consumed = <<>>
    /\ exit_code = None

\* main has not returned: the runtime and its tasks are alive
Running == main_pc # "done"

(***************************************************************************)
(* The main task: the frontier / dispatcher loop.                          *)
(***************************************************************************)
\* rx.recv().await: an edge enters the loop body, the sentinel ends the loop
FrontierRecv ==
    /\ main_pc = "recv"
    /\ rx # <<>>
    /\ rx' = Tail(rx)
    /\ IF IsSome(Head(rx))
         THEN /\ cur' = Head(rx)
              /\ main_pc' = "filter"
         ELSE /\ cur' = None
              /\ main_pc' = "join"
    /\ UNCHANGED <<inputs, result_q, result_closed, shared, seen, sleep_time,
                   excluded_log, exit_code, repv, tasks>>

\* a variant of FrontierFilter: the pacing sleep is missing
FrontierFilterNoPace ==
    /\ main_pc = "filter"
    /\ LET url == Unwrap(cur).url
           verdict == Decide(exclude_pattern, seen, url)
       IN  CASE verdict = "exclude" ->
                  /\ excluded_log' = excluded_log \cup {url}
                  /\ main_pc' = "recv"
                  /\ cur' = None
                  /\ UNCHANGED <<seen, todo>>
             [] verdict = "seen" ->
                  /\ main_pc' = "recv"
                  /\ cur' = None
                  /\ UNCHANGED <<seen, todo, excluded_log>>
             [] OTHER ->
                  /\ seen' = seen \cup {url}
                  /\ todo' = FetchAdd(todo)
                  /\ main_pc' = "acquire"
                  /\ UNCHANGED <<cur, excluded_log>>
    /\ UNCHANGED <<inputs, chans, sem, running_average, sleep_time, exit_code,
                   repv, tasks>>

\* the exclusion test, the seen test, seen.insert and todo.fetch_add
FrontierFilter ==
    /\ main_pc = "filter"
    /\ LET url == Unwrap(cur).url
           verdict == Decide(exclude_pattern, seen, url)
       IN  CASE verdict = "exclude" ->
                  /\ excluded_log' = excluded_log \cup {url}
                  /\ main_pc' = "recv"
                  /\ cur' = None
                  /\ UNCHANGED <<seen, todo>>
             [] verdict = "seen" ->
                  /\ main_pc' = "recv"
                  /\ cur' = None
                  /\ UNCHANGED <<seen, todo, excluded_log>>
             [] OTHER ->
                  /\ seen' = seen \cup {url}
                  /\ todo' = FetchAdd(todo)
                  /\ main_pc' = "pace"
                  /\ UNCHANGED <<cur, excluded_log>>
    /\ UNCHANGED <<inputs, chans, sem, running_average, sleep_time, exit_code,
                   repv, tasks>>

\* sleep_time is computed under the mutex and the sleep begins
FrontierPace ==
    /\ main_pc = "pace"
    /\ sleep_time' = Some(SleepTime(running_average))
    /\ main_pc' = "sleep"
    /\ UNCHANGED <<inputs, chans, shared, seen, cur, excluded_log, exit_code,
                   repv, tasks>>

\* the sleep ends
FrontierWake ==
    /\ main_pc = "sleep"
    /\ sleep_time' = None
    /\ main_pc' = "acquire"
    /\ UNCHANGED <<inputs, chans, shared, seen, cur, excluded_log, exit_code,
                   repv, tasks>>

\* a variant of FrontierSpawn: the new task goes before the earlier ones
FrontierSpawnFirst ==
    /\ main_pc = "acquire"
    /\ sem > 0
    /\ sem' = AcquirePermit(sem)
    /\ tasks' = <<NewTask(Unwrap(cur).url, Unwrap(cur).from)>> \o tasks
    /\ cur' = None
    /\ main_pc' = "recv"
    /\ UNCHANGED <<inputs, chans, todo, running_average, seen, sleep_time,
                   excluded_log, exit_code, repv>>

\* sem.acquire_owned() returns a permit and the fetch task is spawned
FrontierSpawn ==
    /\ main_pc = "acquire"
    /\ sem > 0
    /\ sem' = AcquirePermit(sem)
    /\ tasks' = Append(tasks, NewTask(Unwrap(cur).url, Unwrap(cur).from))
    /\ cur' = None
    /\ main_pc' = "recv"
    /\ UNCHANGED <<inputs, chans, todo, running_average, seen, sleep_time,
                   excluded_log, exit_code, repv>>

\* handle.await returns the reporter's state; exit(1) if it counted errors
MainJoin ==
    /\ main_pc = "join"
    /\ rep_pc = "done"
    /\ exit_code' = Some(IF state.error_count > 0 THEN 1 ELSE 0)
    /\ main_pc' = "done"
    /\ UNCHANGED <<inputs, chans, shared, seen, cur, sleep_time, excluded_log,
                   repv, tasks>>

(***************************************************************************)
(* The reporter task.                                                      *)
(***************************************************************************)
\* the initial one-second sleep ends
ReporterStart ==
    /\ Running
    /\ rep_pc = "start"
    /\ rep_pc' = "recv"
    /\ UNCHANGED <<inputs, chans, shared, mainv, rep_result, state, consumed, tasks>>

\* result_rx.recv().await returns a result
ReporterRecv ==
    /\ Running
    /\ rep_pc = "recv"
    /\ result_q # <<>>
    /\ rep_result' = Some(Head(result_q))
    /\ result_q' = Tail(result_q)
    /\ rep_pc' = "sub"
    /\ UNCHANGED <<inputs, rx, result_closed, shared, mainv, state, consumed, tasks>>

\* output_todo.fetch_sub(1, SeqCst)
ReporterSub ==
    /\ Running
    /\ rep_pc = "sub"
    /\ todo' = FetchSub(todo)
    /\ rep_pc' = "load"
    /\ UNCHANGED <<inputs, chans, sem, running_average, mainv, rep_result, state,
                   consumed, tasks>>

\* a variant of ReporterLoad: the loop is left one result early
ReporterLoadEarly ==
    /\ Running
    /\ rep_pc = "load"
    /\ LET todo_value == todo
           result == Unwrap(rep_result)
       IN  /\ state' = log_result(result, state)
           /\ consumed' = IF result \in DOMAIN consumed
                            THEN [consumed EXCEPT ![result] = @ + 1]
                            ELSE (result :> 1) @@ consumed
           /\ rep_pc' = IF todo_value <= 1 THEN "sentinel" ELSE "recv"
    /\ rep_result' = None
    /\ UNCHANGED <<inputs, chans, shared, mainv, tasks>>

\* todo_value = output_todo.load(SeqCst); log_result; break if todo_value == 0
ReporterLoad ==
    /\ Running
    /\ rep_pc = "load"
    /\ LET todo_value == todo
           result == Unwrap(rep_result)
       IN  /\ state' = log_result(result, state)
           /\ consumed' = IF result \in DOMAIN consumed
                            THEN [consumed EXCEPT ![result] = @ + 1]
                            ELSE (result :> 1) @@ consumed
           /\ rep_pc' = IF todo_value = 0 THEN "sentinel" ELSE "recv"
    /\ rep_result' = None
    /\ UNCHANGED <<inputs, chans, shared, mainv, tasks>>

\* output_tx.send(None).await
ReporterSentinel ==
    /\ Running
    /\ rep_pc = "sentinel"
    /\ Len(rx) < EdgeCap
    /\ rx' = Append(rx, None)
    /\ rep_pc' = "close"
    /\ UNCHANGED <<inputs, result_q, result_closed, shared, mainv, rep_result,
                   state, consumed, tasks>>

\* result_rx.close(); the summary is printed and the state returned
ReporterClose ==
    /\ Running
    /\ rep_pc = "close"
    /\ result_closed' = TRUE
    /\ rep_pc' = "done"
    /\ UNCHANGED <<inputs, rx, result_q, shared, mainv, rep_result, state,
                   consumed, tasks>>

(***************************************************************************)
(* The fetch tasks.                                                        *)
(***************************************************************************)
\* a variant of FetchResponse: drop(fetch_permit) is missing, so the permit
\* stays with the task while it processes the response
FetchResponseKeepPermit(t) ==
    /\ Running
    /\ tasks[t].pc = "get"
    /\ tasks' = [tasks EXCEPT ![t].pc = "lock"]
    /\ UNCHANGED <<inputs, chans, shared, mainv, repv>>

\* client.get(url).send().await returns and the permit is dropped
FetchResponse(t) ==
    /\ Running
    /\ tasks[t].pc = "get"
    /\ sem' = ReleasePermit(sem)
    /\ tasks' = [tasks EXCEPT ![t].pc = "lock", ![t].fetch_permit = FALSE]
    /\ UNCHANGED <<inputs, chans, todo, running_average, mainv, repv>>

\* a variant of FetchObserve: a failed response is not recorded in the result
FetchObserveNoError(t) ==
    /\ Running
    /\ tasks[t].pc = "lock"
    /\ LET page == PageOf(tasks[t].url)
       IN  /\ running_average' = Observe(running_average, page.dur)
           /\ tasks' =
                IF page.resp = "ok"
                  THEN [tasks EXCEPT ![t].pc = "text",
                                     ![t].result.status = page.status]
                  ELSE [tasks EXCEPT ![t].pc = "send"]
    /\ UNCHANGED <<inputs, chans, todo, sem, mainv, repv>>

\* the running average is updated under the mutex; then the response is
\* matched: its status is kept, or the error is recorded and fetch returns
FetchObserve(t) ==
    /\ Running
    /\ tasks[t].pc = "lock"
    /\ LET page == PageOf(tasks[t].url)
       IN  /\ running_average' = Observe(running_average, page.dur)
           /\ tasks' =
                IF page.resp = "ok"
                  THEN [tasks EXCEPT ![t].pc = "text",
                                     ![t].result.status = page.status]
                  ELSE [tasks EXCEPT ![t].pc = "send",
                                     ![t].result.status = page.err_status,
                                     ![t].result.error = Some("error")]
    /\ UNCHANGED <<inputs, chans, todo, sem, mainv, repv>>

\* response.text().await returns: the size is kept and the links extracted,
\* or the error is recorded
FetchText(t) ==
    /\ Running
    /\ tasks[t].pc = "text"
    /\ LET page == PageOf(tasks[t].url)
           captures == Captures(page.hrefs, base_url(tasks[t].url))
       IN  tasks' =
             IF page.body = "ok"
               THEN [tasks EXCEPT ![t].result.size = Some(page.size),
                                  ![t].captures = captures,
                                  ![t].pc = IF captures = <<>> THEN "send" ELSE "emit"]
               ELSE [tasks EXCEPT ![t].result.status = page.err_status,
                                  ![t].result.error = Some("error"),
                                  ![t].pc = "send"]
    /\ UNCHANGED <<inputs, chans, shared, mainv, repv>>

\* tx.send(Some((capture, from))).await for the next capture; after the
\* last one extract_urls returns the count and fetch sets the message
FetchEmit(t) ==
    /\ Running
    /\ tasks[t].pc = "emit"
    /\ Len(rx) < EdgeCap
    /\ LET n == tasks[t].sent + 1
           count == Len(tasks[t].captures)
       IN  /\ rx' = Append(rx, Some([url |-> tasks[t].captures[n],
                                     from |-> tasks[t].url]))
           /\ tasks' =
                IF n < count
                  THEN [tasks EXCEPT ![t].sent = n]
                  ELSE [tasks EXCEPT ![t].sent = n,
                                     ![t].result.message = Some(count),
                                     ![t].pc = "send"]
    /\ UNCHANGED <<inputs, result_q, result_closed, shared, mainv, repv>>

\* inner_result_tx.send(result).await.unwrap(): the send fails, and the
\* task panics, once the receiver is closed
FetchSend(t) ==
    /\ Running
    /\ tasks[t].pc = "send"
    /\ IF result_closed
         THEN /\ tasks' = [tasks EXCEPT ![t].pc = "panicked"]
              /\ UNCHANGED result_q
         ELSE /\ Len(result_q) < ResultCap
              /\ result_q' = Append(result_q, tasks[t].result)
              /\ tasks' = [tasks EXCEPT ![t].pc = "done"]
    /\ UNCHANGED <<inputs, rx, result_closed, shared, mainv, repv>>

Next ==
    \/ FrontierRecv
    \/ FrontierFilter
    \/ FrontierPace
    \/ FrontierWake
    \/ FrontierSpawn
    \/ MainJoin
    \/ ReporterStart
    \/ ReporterRecv
    \/ ReporterSub
    \/ ReporterLoad
    \/ ReporterSentinel
    \/ ReporterClose
    \/ \E t \in DOMAIN tasks : FetchResponse(t)
    \/ \E t \in DOMAIN tasks : FetchObserve(t)
    \/ \E t \in DOMAIN tasks : FetchText(t)
    \/ \E t \in DOMAIN tasks : FetchEmit(t)
    \/ \E t \in DOMAIN tasks : FetchSend(t)

Spec == Init /\ [][Next]_vars

\* the steps of one fetch task
FetchStep(t) ==
    /\ t \in DOMAIN tasks
    /\ \/ FetchResponse(t)
       \/ FetchObserve(t)
       \/ FetchText(t)
       \/ FetchEmit(t)
       \/ FetchSend(t)

MainStep ==
    FrontierRecv \/ FrontierFilter \/ FrontierPace \/ FrontierWake \/ FrontierSpawn
        \/ MainJoin

ReporterStep ==
    ReporterStart \/ ReporterRecv \/ ReporterSub \/ ReporterLoad \/ ReporterSentinel
        \/ ReporterClose

\* the runtime schedules every task that can run, every sleep ends and
\* every network call returns; a task waiting on a channel is served in turn
Fairness ==
    /\ WF_vars(MainStep)
    /\ WF_vars(ReporterStep)
    /\ \A t \in 1 .. Cardinality(SiteUrls) : SF_vars(FetchStep(t))

FairSpec == Init /\ [][Next]_vars /\ Fairness

(***************************************************************************)
(* Derived quantities used by the properties.                              *)
(***************************************************************************)
RECURSIVE SumCounts(_, _)
SumCounts(f, S) ==
    IF S = {} THEN 0
    ELSE LET r == CHOOSE x \in S : TRUE
         IN  f[r] + SumCounts(f, S \ {r})

\* how many results for `url` the reporter has passed to log_result
ConsumedCount(url) ==
    SumCounts(consumed, {r \in DOMAIN consumed : r.url = url})

\* the URLs the reporter has consumed a result for
ConsumedUrls == {r.url : r \in DOMAIN consumed}

\* the targets of the edges the fetch tasks have sent so far
EmittedTargets ==
    UNION {{tasks[t].captures[i] : i \in 1 .. tasks[t].sent} : t \in DOMAIN tasks}

\* the URLs discovered so far: the seed and every non-excluded emitted target
Discovered ==
    {u \in {SeedUrl} \cup EmittedTargets : ~IsExcluded(exclude_pattern, u)}

\* the edges waiting in the edge channel
PendingEdges == {Unwrap(rx[i]) : i \in {j \in DOMAIN rx : IsSome(rx[j])}}

\* the fetch tasks spawned for `url`
TasksFor(url) == {t \in DOMAIN tasks : tasks[t].url = url}

\* C1: when the reporter has left its loop and is about to send the
\* sentinel, every URL discovered so far has had exactly one result consumed
\* and no edge is waiting in the edge channel or in the frontier's hands.
TerminationSound ==
    rep_pc = "sentinel" =>
        /\ \A u \in Discovered : ConsumedCount(u) = 1
        /\ PendingEdges = {}
        /\ cur = None

\* C2: under fair scheduling the crawl terminates: the reporter has left
\* its loop and sent the sentinel, the frontier has consumed it and main has
\* returned.
CrawlTerminates ==
    <>(main_pc = "done" /\ rep_pc = "done")

(***************************************************************************)
(* The link graph, as the properties see it.                               *)
(***************************************************************************)
\* the same-host, non-excluded URLs the page at `url` links to
LinkTargets(url) ==
    LET page == PageOf(url)
        parsed == {ParseHref(page.hrefs[i], base_url(url)) : i \in DOMAIN page.hrefs}
    IN  {u \in {Unwrap(o) : o \in {q \in parsed : IsSome(q)}} :
            u.host = SeedUrl.host /\ ~IsExcluded(exclude_pattern, u)}

RECURSIVE ReachFrom(_)
ReachFrom(S) ==
    LET T == S \cup UNION {LinkTargets(u) : u \in S}
    IN  IF T = S THEN S ELSE ReachFrom(T)

\* the URLs reachable from the seed through same-host, non-excluded links
Reachable ==
    IF IsExcluded(exclude_pattern, SeedUrl) THEN {} ELSE ReachFrom({SeedUrl})

\* every fetch of a reachable URL succeeds
AllFetchesSucceed ==
    \A u \in Reachable : PageOf(u).resp = "ok" /\ PageOf(u).body = "ok"

\* C3: when all fetches succeed, at process exit the reporter has consumed
\* exactly one result for each URL reachable from the seed and for no other
\* URL, and the total page count is the number of reachable URLs.
CrawlCoverage ==
    (main_pc = "done" /\ AllFetchesSucceed) =>
        /\ ConsumedUrls = Reachable
        /\ \A u \in Reachable : ConsumedCount(u) = 1
        /\ state.count = Cardinality(Reachable)

\* a fetch task has sent all the edges of a page that links twice to one
\* URL, and the frontier has handled them all
DuplicateLinksHandled(u) ==
    /\ PendingEdges = {}
    /\ cur = None
    /\ \E t \in DOMAIN tasks :
          /\ tasks[t].sent = Len(tasks[t].captures)
          /\ \E i, j \in 1 .. tasks[t].sent :
                i # j /\ tasks[t].captures[i] = u /\ tasks[t].captures[j] = u

\* C4: no URL has had more than one fetch task spawned for it.
AtMostOnceFetch ==
    \A u \in AllUrls : Cardinality(TasksFor(u)) <= 1

\* C4 witness: a URL linked twice from one page has one task, all edges handled
AtMostOnceFetchWitness ==
    \E u \in SiteUrls : DuplicateLinksHandled(u) /\ Cardinality(TasksFor(u)) = 1

\* the fetch tasks holding a permit: those inside their network call
Holding == {t \in DOMAIN tasks : tasks[t].pc = "get"}

\* C5: at most max_concurrent tasks hold a permit, and the permits held
\* and the permits free add up to max_concurrent.
ConcurrencyBound ==
    /\ Cardinality(Holding) <= max_concurrent
    /\ Cardinality(Holding) + sem = max_concurrent

\* C5 witness: all permits are held while the dispatcher waits for one, and
\* an earlier task has already released its permit
ConcurrencyBoundWitness ==
    /\ main_pc = "acquire"
    /\ sem = 0
    /\ Cardinality(Holding) = max_concurrent
    /\ \E t \in DOMAIN tasks : tasks[t].pc # "get"

\* C6: a URL matching the exclusion pattern is never in the seen set, never
\* has a fetch task or a result, and the step that handles an edge to it
\* leaves the seen set and the counter unchanged and returns to the receive.
ExclusionPrecedence ==
    /\ [](\A u \in AllUrls : IsExcluded(exclude_pattern, u) =>
              /\ u \notin seen
              /\ TasksFor(u) = {}
              /\ u \notin ConsumedUrls)
    /\ [][(/\ main_pc = "filter"
           /\ main_pc' # "filter"
           /\ IsExcluded(exclude_pattern, Unwrap(cur).url))
          => (seen' = seen /\ todo' = todo /\ main_pc' = "recv")]_vars

\* C6 witness: an excluded URL linked twice was dropped and others fetched
ExclusionPrecedenceWitness ==
    \E u \in excluded_log :
        /\ DuplicateLinksHandled(u)
        /\ Cardinality(seen) >= 2
        /\ main_pc = "done"

\* C7: every URL in the seen set, in a fetch task, in the edge channel or in
\* the frontier's hands has the seed's host.
HostFiltering ==
    /\ \A u \in seen : u.host = SeedUrl.host
    /\ \A t \in DOMAIN tasks : tasks[t].url.host = SeedUrl.host
    /\ \A e \in PendingEdges : e.url.host = SeedUrl.host
    /\ IsSome(cur) => Unwrap(cur).url.host = SeedUrl.host

\* C7 witness: a same-host page with a cross-host link has been extracted
\* and its edges sent, and a page found through it has been fetched
HostFilteringWitness ==
    \E t \in DOMAIN tasks :
        /\ tasks[t].pc = "done"
        /\ \E i \in DOMAIN PageOf(tasks[t].url).hrefs :
              PageOf(tasks[t].url).hrefs[i] = Abs(OtherHost, 1)
        /\ tasks[t].sent >= 1
        /\ \E t2 \in DOMAIN tasks : tasks[t2].from = tasks[t].url /\ t2 # t

\* the fetch_sub calls the reporter has performed
Decrements == state.count + (IF rep_pc = "load" THEN 1 ELSE 0)

\* C8: the counter equals the number of admitted URLs minus the number of
\* decrements performed; it is never decremented at 0, so it never wraps.
TodoAccounting ==
    todo = Cardinality(seen) - Decrements

\* C8 witness: several increments and several decrements have happened
TodoAccountingWitness ==
    /\ Cardinality(seen) >= 3
    /\ Decrements >= 2
    /\ todo = 1

\* C9: when main returns, every URL the frontier admitted has had exactly
\* one result consumed by the reporter.
OneResultPerAdmitted ==
    main_pc = "done" => \A u \in seen : ConsumedCount(u) = 1

\* the classification of a result as the reporter's error line
ClassifiedError(r) ==
    \/ r.status = None
    \/ (IsSome(r.status) /\ ~(Unwrap(r.status) \in 200 .. 299))
    \/ r.size = None
    \/ (IsSome(r.size) /\ Unwrap(r.size) < 200)

\* the number of consumed results classified as errors
ClassifiedErrors ==
    SumCounts(consumed, {r \in DOMAIN consumed : ClassifiedError(r)})

\* C10: error_count is the number of consumed results with a missing or
\* non-2xx status or a size below 200 bytes or unknown; the process exits
\* with 1 iff that number is positive and with 0 iff it is zero.
ErrorAccounting ==
    /\ state.error_count = ClassifiedErrors
    /\ main_pc = "done" =>
          /\ IsSome(exit_code)
          /\ (Unwrap(exit_code) = 1 <=> ClassifiedErrors > 0)
          /\ (Unwrap(exit_code) = 0 <=> ClassifiedErrors = 0)

\* C10 witness: the process has exited with 1 after a 199-byte page and an
\* unreadable body were counted and a 200-byte page was not
ErrorAccountingWitness ==
    /\ main_pc = "done"
    /\ exit_code = Some(1)
    /\ state.error_count = 2
    /\ state.count = 3
    /\ \E r \in DOMAIN consumed : r.size = Some(MIN_SIZE)
    /\ \E r \in DOMAIN consumed : r.size = Some(MIN_SIZE - 1)

(***************************************************************************)
(* Failure isolation.                                                      *)
(***************************************************************************)
\* the fetch tasks whose network call has returned a transport failure
FailedTasks ==
    {t \in DOMAIN tasks :
        PageOf(tasks[t].url).resp = "err" /\ tasks[t].pc \notin {"get", "lock"}}

\* the step in which task t records its transport failure
RecordsFailure(t) ==
    /\ t \in DOMAIN tasks
    /\ tasks[t].pc = "lock"
    /\ PageOf(tasks[t].url).resp = "err"
    /\ tasks'[t].pc # "lock"

SentinelsSent ==
    Cardinality({i \in DOMAIN rx : rx[i] = None})
        + (IF main_pc \in {"join", "done"} THEN 1 ELSE 0)

\* the reporter reads todo = 0 and leaves its loop
ReadsZero == rep_pc = "load" /\ rep_pc' = "sentinel"

\* C12: the sentinel is sent at most once, and only after the reporter has
\* consumed a result and then read todo = 0; at that read every fetch task
\* spawned so far has sent its result and the reporter has consumed it, and
\* no URL is between its increment and its spawn.
SentinelDiscipline ==
    /\ [](SentinelsSent = (IF rep_pc \in {"close", "done"} THEN 1 ELSE 0))
    /\ [](rep_pc \in {"sentinel", "close", "done"} => state.count >= 1)
    /\ [][(rep_pc \in {"sentinel", "close", "done"})
              => (rep_pc' \in {"sentinel", "close", "done"})]_vars
    /\ [][(rep_pc \in {"close", "done"}) => (rep_pc' \in {"close", "done"})]_vars
    /\ [][ReadsZero =>
              /\ todo = 0
              /\ main_pc \notin {"pace", "sleep", "acquire"}
              /\ \A t \in DOMAIN tasks :
                    /\ tasks[t].pc = "done"
                    /\ tasks[t].result \in DOMAIN consumed'
              /\ result_q = <<>>]_vars

\* C12 witness: the reporter has just read 0 after several results, with
\* every spawned task finished
SentinelDisciplineWitness ==
    /\ rep_pc = "sentinel"
    /\ state.count >= 3
    /\ todo = 0
    /\ \A t \in DOMAIN tasks : tasks[t].pc = "done"

(***************************************************************************)
(* Channel sends.                                                          *)
(***************************************************************************)
\* C13: no channel send fails: no fetch task has panicked at the unwrap of
\* its result send (the edge channel's receiver lives until main returns,
\* so the edge and sentinel sends cannot fail before that).
SendsNeverFail ==
    \A t \in DOMAIN tasks : tasks[t].pc # "panicked"

(***************************************************************************)
(* Deadlock freedom.                                                       *)
(***************************************************************************)
\* C14: while main has not returned, some task can take a step: the main
\* loop, the reporter and the fetch tasks are never all blocked.
DeadlockFree ==
    main_pc # "done" => ENABLED Next

(***************************************************************************)
(* Permit release.                                                         *)
(***************************************************************************)
\* the fetch tasks that own a permit
PermitOwners == {t \in DOMAIN tasks : tasks[t].fetch_permit}

\* task t waits to send on a full edge channel or a full result channel
BlockedOnSend(t) ==
    \/ tasks[t].pc = "emit" /\ Len(rx) >= EdgeCap
    \/ tasks[t].pc = "send" /\ Len(result_q) >= ResultCap /\ ~result_closed

\* C15: a fetch task owns its permit only while it is inside its network
\* call; the step in which that call returns, with a response or a failure,
\* gives the permit back, before the body is read and before any edge or
\* result is sent; so a task waiting on a full channel never owns a permit.
PermitReleaseOrdering ==
    /\ [](\A t \in DOMAIN tasks : tasks[t].fetch_permit <=> tasks[t].pc = "get")
    /\ [](Cardinality(PermitOwners) + sem = max_concurrent)
    /\ [](\A t \in DOMAIN tasks : BlockedOnSend(t) => t \notin PermitOwners)
    /\ [][\A t \in DOMAIN tasks :
              (tasks[t].pc = "get" /\ tasks'[t].pc # "get") =>
                  /\ tasks'[t].pc = "lock"
                  /\ sem' = sem + 1
                  /\ tasks'[t].result = tasks[t].result
                  /\ tasks'[t].sent = 0
                  /\ UNCHANGED chans]_vars

\* C15 witness: with one permit, a task waits on the full edge channel
\* while another task is inside its network call with the permit
PermitReleaseOrderingWitness ==
    /\ max_concurrent = 1
    /\ sem = 0
    /\ \E t, t2 \in DOMAIN tasks :
          /\ tasks[t].pc = "emit"
          /\ Len(rx) >= EdgeCap
          /\ tasks[t2].pc = "get"
          /\ tasks[t2].fetch_permit

(***************************************************************************)
(* The admission protocol.                                                 *)
(***************************************************************************)
\* the main loop holds an admitted URL that has no fetch task yet
InAdmission == main_pc \in {"pace", "sleep", "acquire"}

\* the moves of the main task
MainMoves ==
    {<<"recv", "filter">>, <<"recv", "join">>, <<"filter", "recv">>,
     <<"filter", "pace">>, <<"pace", "sleep">>, <<"sleep", "acquire">>,
     <<"acquire", "recv">>, <<"join", "done">>}

\* C16: an admitted URL goes through the increment of todo, one pacing
\* sleep, the acquisition of one permit and the spawn of its fetch task, in
\* this order; until the spawn the main loop takes nothing from the edge
\* channel, so at most one URL is admitted and not yet spawned; and a fetch
\* task inside its network call can return whatever the main loop is doing.
AdmissionProtocol ==
    /\ [](Cardinality(seen) = Len(tasks) + (IF InAdmission THEN 1 ELSE 0))
    /\ [](InAdmission =>
              /\ IsSome(cur)
              /\ Unwrap(cur).url \in seen
              /\ TasksFor(Unwrap(cur).url) = {})
    /\ [](main_pc = "sleep" <=> IsSome(sleep_time))
    /\ [](\A t \in DOMAIN tasks :
              (tasks[t].pc = "get" /\ main_pc # "done") => ENABLED FetchResponse(t))
    /\ [][main_pc' # main_pc => <<main_pc, main_pc'>> \in MainMoves]_vars
    /\ [][InAdmission => Len(rx') >= Len(rx)]_vars
    /\ [][(main_pc = "filter" /\ main_pc' = "pace") =>
              /\ todo' = todo + 1
              /\ seen' = seen \cup {Unwrap(cur).url}
              /\ Unwrap(cur).url \notin seen
              /\ UNCHANGED <<tasks, sem, cur>>]_vars
    /\ [][(main_pc = "filter" /\ main_pc' = "recv") =>
              UNCHANGED <<todo, seen, tasks, sem>>]_vars
    /\ [][(InAdmission /\ main_pc' # "recv") =>
              UNCHANGED <<seen, cur>> /\ Len(tasks') = Len(tasks)]_vars
    /\ [][(main_pc = "acquire" /\ main_pc' = "recv") =>
              /\ sem > 0
              /\ sem' = sem - 1
              /\ Len(tasks') = Len(tasks) + 1
              /\ tasks'[Len(tasks')].url = Unwrap(cur).url
              /\ tasks'[Len(tasks')].pc = "get"
              /\ UNCHANGED <<todo, seen>>]_vars

\* C16 witness: an admitted URL, already counted, waits for a permit while
\* the task holding the only permit is inside its network call
AdmissionProtocolWitness ==
    /\ main_pc = "acquire"
    /\ sem = 0
    /\ todo >= 2
    /\ \E t \in DOMAIN tasks : tasks[t].pc = "get"
    /\ \E t \in DOMAIN tasks : tasks[t].pc = "done"

(***************************************************************************)
(* The order of dispatch.                                                  *)
(***************************************************************************)
\* C17: fetch tasks are spawned in the order in which the main loop took
\* their URLs from the edge channel and admitted them: the edge channel is a
\* queue, the k-th URL inserted into seen is the URL of the k-th task
\* spawned, and the order of the tasks spawned never changes.
FifoDispatch ==
    /\ [][Len(rx') > Len(rx) =>
              /\ Len(rx') = Len(rx) + 1
              /\ SubSeq(rx', 1, Len(rx)) = rx]_vars
    /\ [][(main_pc = "recv" /\ main_pc' = "filter") =>
              /\ rx # <<>>
              /\ cur' = Head(rx)
              /\ rx' = Tail(rx)]_vars
    /\ [][seen' # seen =>
              /\ seen' = seen \cup {Unwrap(cur).url}
              /\ Cardinality(seen') = Len(tasks) + 1]_vars
    /\ [][Len(tasks') # Len(tasks) =>
              /\ Len(tasks') = Cardinality(seen)
              /\ tasks'[Len(tasks')].url = Unwrap(cur).url]_vars
    /\ [][\A t \in DOMAIN tasks :
              t \in DOMAIN tasks' /\ tasks'[t].url = tasks[t].url]_vars

\* C17 witness: three tasks were spawned, and the reporter has the result
\* of the third while the second is still inside its network call
FifoDispatchWitness ==
    /\ Len(tasks) >= 3
    /\ tasks[2].pc = "get"
    /\ tasks[3].pc = "done"
    /\ tasks[3].url \in ConsumedUrls

(***************************************************************************)
(* The running average of the response times.                             *)
(***************************************************************************)
\* the tasks whose network call has returned and whose update is applied
Observed == {t \in DOMAIN tasks : tasks[t].pc \notin {"get", "lock"}}

\* the duration of the network call of a task
DurationOf(t) == PageOf(tasks[t].url).dur

\* the orders in which the tasks of a set can have taken the mutex
RECURSIVE Orders(_)
Orders(S) ==
    IF S = {} THEN {<<>>}
    ELSE UNION {{<<t>> \o o : o \in Orders(S \ {t})} : t \in S}

\* the updates of the tasks of a sequence applied one after the other to 1.0
RECURSIVE Fold(_, _)
Fold(avg, order) ==
    IF order = <<>> THEN avg
    ELSE Fold(Observe(avg, DurationOf(Head(order))), Tail(order))

\* C18: every network call that has returned, with a response or with an
\* error, has applied one update avg := 0.9 * avg + 0.1 * duration to the
\* running average under the mutex: the average is the result of applying
\* the updates of these calls one after the other, in some order, to 1.0;
\* it changes only in the step of a task that holds the mutex, and by that
\* task's update of the current value.
LatencyObservation ==
    /\ [](\E order \in Orders(Observed) :
              running_average = Fold(<<10, 1>>, order))
    /\ [](running_average[2] = 10 ^ Cardinality(Observed))
    /\ [][\A t \in DOMAIN tasks :
              (tasks[t].pc = "lock" /\ tasks'[t].pc # "lock") =>
                  /\ running_average' = Observe(running_average, DurationOf(t))
                  /\ tasks'[t].pc = IF tasks'[t].result.error = None
                                      THEN "text" ELSE "send"
                  /\ \A t2 \in DOMAIN tasks \ {t} : tasks'[t2] = tasks[t2]]_vars
    /\ [][running_average' # running_average =>
              \E t \in DOMAIN tasks :
                  tasks[t].pc = "lock" /\ tasks'[t].pc # "lock"]_vars

\* C18 witness: two calls have applied their updates, one of them failed,
\* their durations differ, and a further call has returned and has not yet
\* taken the mutex
LatencyObservationWitness ==
    /\ Cardinality(Observed) >= 2
    /\ \E t \in Observed : tasks[t].result.error # None /\ tasks[t].result.size = None
    /\ \E t, t2 \in Observed : DurationOf(t) # DurationOf(t2)
    /\ \E t \in DOMAIN tasks : tasks[t].pc = "lock"

(***************************************************************************)
(* The pacing sleep.                                                       *)
(***************************************************************************)
\* equality of fractions
FracEq(a, b) == a[1] * b[2] = b[1] * a[2]

\* max(avg - 0.5, 1.0) in tenths of a second
NextDelay(avg) ==
    IF avg[1] - 5 * avg[2] > 10 * avg[2]
      THEN <<avg[1] - 5 * avg[2], avg[2]>>
      ELSE <<10, 1>>

\* C19: the sleep before every spawn lasts max(avg - 0.5, 1.0) seconds for
\* the running average avg read when the sleep is computed; it is never
\* shorter than 1.0 second, and it is longer than 1.0 second only when that
\* average is above 1.5 seconds.
PacingFloor ==
    /\ [][(main_pc = "pace" /\ main_pc' # "pace") =>
              /\ main_pc' = "sleep"
              /\ IsSome(sleep_time')
              /\ FracEq(Unwrap(sleep_time'), NextDelay(running_average))
              /\ (FracLess(<<10, 1>>, Unwrap(sleep_time')) <=>
                     FracLess(<<15, 1>>, running_average))]_vars
    /\ [](IsSome(sleep_time) => ~FracLess(Unwrap(sleep_time), <<10, 1>>))
    /\ [](main_pc = "sleep" => IsSome(sleep_time))
    /\ [][(main_pc = "sleep" /\ main_pc' = "sleep") =>
              sleep_time' = sleep_time]_vars
    /\ [][main_pc' = "acquire" => main_pc \in {"sleep", "acquire"}]_vars

\* C19 witness: after a response time of 7 seconds the running average is
\* 1.6 seconds and the main loop sleeps 1.1 seconds
PacingFloorWitness ==
    /\ main_pc = "sleep"
    /\ IsSome(sleep_time)
    /\ FracLess(<<10, 1>>, Unwrap(sleep_time))
    /\ FracEq(Unwrap(sleep_time), <<11, 1>>)

\* the running average is exactly 1.5 seconds and the sleep is 1.0 second
PacingAtThreshold ==
    /\ main_pc = "sleep"
    /\ FracEq(running_average, <<15, 1>>)
    /\ FracEq(Unwrap(sleep_time), <<10, 1>>)

====
